---- MODULE Spec2Model ----
(***************************************************************************)
(* Smart order router: SmartOrderRouter.route_order and the venues         *)
(* (ExchangeSimulator) and allocation engine (MLRoutingEngine) it drives,  *)
(* run by the asyncio event loop.                                          *)
(*                                                                         *)
(* Units.  Floats are modelled as exact numbers:                           *)
(*   prices            integer cents                                       *)
(*   liquidity, probabilities, volume imbalance, tanh   permille           *)
(*   fee_percentage    1e-6 (so 0.001 is 1000)                             *)
(*   impact            1e-6 (so 0.001 is 1000)                             *)
(*   latency           tenths of a millisecond                             *)
(*   scores            1e-6                                                *)
(*   quantities        rationals <<numerator, denominator>>, reduced       *)
(***************************************************************************)
EXTENDS Integers, Sequences, FiniteSets, TLC

(***************************************************************************)
(* Bounds of the model.                                                    *)
(***************************************************************************)
NumVenues == 2
MaxCycles == 2

Venues == 1..NumVenues
Cycles == 1..MaxCycles

(***************************************************************************)
(* Exact rational arithmetic.                                              *)
(***************************************************************************)
Abs(n) == IF n < 0 THEN -n ELSE n

RECURSIVE GCD(_, _)
GCD(a, b) == IF b = 0 THEN a ELSE GCD(b, a % b)

\* a division by zero gives what numpy's float64 gives: <<1, 0>> is inf,
\* <<-1, 0>> is -inf, <<0, 0>> is nan
Rat(n, d) ==
    IF d = 0
    THEN <<IF n > 0 THEN 1 ELSE IF n < 0 THEN -1 ELSE 0, 0>>
    ELSE LET g == GCD(Abs(n), Abs(d))
             s == IF d < 0 THEN -1 ELSE 1
         IN  <<(s * n) \div g, (s * d) \div g>>

Zero == <<0, 1>>
RInt(n) == <<n, 1>>
\* sums over the least common denominator, products after cross-cancelling
RAdd(x, y) ==
    LET g == GCD(x[2], y[2])
    IN  Rat(x[1] * (y[2] \div g) + y[1] * (x[2] \div g), (x[2] \div g) * y[2])
RMul(x, y) ==
    LET g1 == GCD(Abs(x[1]), Abs(y[2]))
        g2 == GCD(Abs(y[1]), Abs(x[2]))
    IN  IF g1 = 0 \/ g2 = 0
        THEN Rat(x[1] * y[1], x[2] * y[2])
        ELSE Rat((x[1] \div g1) * (y[1] \div g2), (x[2] \div g2) * (y[2] \div g1))
RDiv(x, y) == RMul(x, <<y[2], y[1]>>)
RPos(x) == x[1] > 0
RLe(x, y) == x[1] * y[2] <= y[1] * x[2]
RMin(x, y) == IF RLe(x, y) THEN x ELSE y

RECURSIVE RSum(_)
RSum(s) == IF s = <<>> THEN Zero ELSE RAdd(Head(s), RSum(Tail(s)))

(***************************************************************************)
(* Venues: ExchangeSimulator.                                              *)
(***************************************************************************)
\* SmartOrderRouter._initialize_exchanges: (exchange_id, base latency)
ExchangeConfigs ==
    << <<"NYSE", 30>>, <<"NASDAQ", 25>>, <<"BATS", 40>>,
       <<"IEX", 100>>, <<"ARCA", 35>> >>

ExchangeId(v) == ExchangeConfigs[v][1]
BaseLatency(v) == ExchangeConfigs[v][2]

\* ExchangeSimulator.symbols
ListedSymbols == {"AAPL", "GOOGL", "MSFT", "AMZN", "TSLA"}

\* levels per side built by _generate_order_book
BookLevels == 10

\* draws of the constructor's random.uniform calls: liquidity_factor in
\* [0.7, 1.0], fee_percentage in [0.001, 0.003], base_price in [100, 500],
\* level volume in [100, 1000]
LiquiditySet == {700, 1000}
FeeSet == {2000}
BasePriceSet == {10000}
RawVolumeSet == {1000}

\* _generate_order_book: spread = base_price * 0.001, level i at
\* base -/+ spread/2 -/+ i*0.01, volume = draw * liquidity_factor
GenerateOrderBook(base_price, liquidity_factor, raw_bid, raw_ask) ==
    LET half == base_price \div 2000
    IN  [bids |-> [i \in 1..BookLevels |->
                     <<base_price - half - (i - 1),
                       (raw_bid * liquidity_factor) \div 1000>>],
         asks |-> [i \in 1..BookLevels |->
                     <<base_price + half + (i - 1),
                       (raw_ask * liquidity_factor) \div 1000>>],
         last_update |-> 0]

\* the empty dict returned for an unknown symbol
NoData == [empty |-> TRUE]

\* no direct call has been made yet
NoCall == [op |-> "none", args |-> <<>>]

VARIABLES
    is_active,            \* ExchangeSimulator.is_active, per venue
    liquidity_factor,     \* ExchangeSimulator.liquidity_factor
    fee_percentage,       \* ExchangeSimulator.fee_percentage
    order_books,          \* ExchangeSimulator.order_books: symbol -> book
    executed_orders,      \* ExchangeSimulator.executed_orders
    routing_history,      \* SmartOrderRouter.routing_history
    total_volume_routed,  \* SmartOrderRouter.total_volume_routed
    total_orders_routed,  \* SmartOrderRouter.total_orders_routed
    performance_history,  \* MLRoutingEngine.performance_history
    cycle,                \* the route_order coroutines and their locals
    ready,                \* the event loop's FIFO queue of ready callbacks
    last_call             \* the last direct call of a synchronous method:
                          \* what was called, with what, and what it returned

vars == <<is_active, liquidity_factor, fee_percentage, order_books,
          executed_orders, routing_history, total_volume_routed,
          total_orders_routed, performance_history, cycle, ready,
          last_call>>

venueVars == <<is_active, liquidity_factor, fee_percentage, order_books,
               executed_orders>>
routerVars == <<routing_history, total_volume_routed, total_orders_routed,
                performance_history>>

\* ExchangeSimulator.get_market_data
GetMarketData(v, symbol) ==
    IF symbol \notin DOMAIN order_books[v]
    THEN NoData
    ELSE LET book == order_books[v][symbol]
         IN  [exchange_id |-> ExchangeId(v),
              symbol |-> symbol,
              bid_price |-> IF book.bids # <<>> THEN book.bids[1][1] ELSE 0,
              ask_price |-> IF book.asks # <<>> THEN book.asks[1][1] ELSE 0,
              bid_volume |-> IF book.bids # <<>> THEN book.bids[1][2] ELSE 0,
              ask_volume |-> IF book.asks # <<>> THEN book.asks[1][2] ELSE 0,
              spread |-> IF book.bids # <<>> /\ book.asks # <<>>
                         THEN book.asks[1][1] - book.bids[1][1] ELSE 0,
              timestamp |-> book.last_update]

\* ExchangeSimulator.get_exchange_status
GetExchangeStatus(v) ==
    [exchange_id |-> ExchangeId(v),
     is_active |-> is_active[v],
     latency_ms |-> BaseLatency(v),
     liquidity_score |-> liquidity_factor[v],
     fee_percentage |-> fee_percentage[v],
     total_executed |-> Len(executed_orders[v])]

(***************************************************************************)
(* Allocation engine: MLRoutingEngine.                                     *)
(***************************************************************************)
\* deque(maxlen=1000) of update_performance
PerformanceMaxLen == 1000

\* The trained models are a fixed but unknown function of the feature
\* vector, whose volume_imbalance entry is drawn afresh for every venue in
\* every cycle.  Each case is one draw of volume_imbalance with the pair
\* (predict_routing_success probability, predict_market_impact) the models
\* answer for it.  The impact is bounded by the training targets of
\* _generate_synthetic_data, about 0.012 at most.
OracleCases ==
    { [volume_imbalance |-> -500, success_prob |-> 900, impact |-> 1000],
      [volume_imbalance |-> 500, success_prob |-> 200, impact |-> 12000] }

\* np.tanh(latency_ms / 20) in permille, for the latencies of ExchangeConfigs
TanhPermille(latency) ==
    CASE latency = 25 -> 124
      [] latency = 30 -> 149
      [] latency = 35 -> 173
      [] latency = 40 -> 197
      [] latency = 100 -> 462
      [] latency = 4000 -> 1000

\* the score of one venue, in 1e-6
RoutingScore(exchange, success_prob, impact) ==
      300 * success_prob
    + 200 * exchange.liquidity_score
    + (200000 - 20 * impact)
    + (150000 - 15 * exchange.fee_percentage)
    + 150 * (1000 - TanhPermille(exchange.latency_ms))

RECURSIVE SumSeq(_)
SumSeq(s) == IF s = <<>> THEN 0 ELSE Head(s) + SumSeq(Tail(s))

\* predict_routing_success and predict_market_impact: the models' answer
\* when the engine is trained, the fixed defaults (0.5 and 0.001) when it
\* is not.  __init__ trains the models, so the router's engine is trained.
PredictRoutingSuccess(is_trained, answer) ==
    IF ~is_trained THEN 500 ELSE answer.success_prob
PredictMarketImpact(is_trained, answer) ==
    IF ~is_trained THEN 1000 ELSE answer.impact

\* calculate_optimal_routing normalising by the largest score instead of
\* the sum of the scores
CalculateOptimalRoutingByMax(order_size, exchanges, oracle) ==
    LET routing_scores ==
            [i \in 1..Len(exchanges) |->
                RoutingScore(exchanges[i], oracle[i].success_prob,
                             oracle[i].impact)]
        top == CHOOSE m \in {routing_scores[i] : i \in 1..Len(exchanges)} :
                  \A i \in 1..Len(exchanges) : routing_scores[i] <= m
    IN  [i \in 1..Len(exchanges) |->
            <<exchanges[i].exchange_id,
              RMul(RDiv(RInt(routing_scores[i]), RInt(top)),
                   RInt(order_size))>>]

\* MLRoutingEngine.calculate_optimal_routing.  The dict it returns is the
\* sequence of its items <<exchange, quantity>> in insertion order; oracle[i]
\* is what the models answer for exchanges[i].
CalculateOptimalRouting(order_size, exchanges, oracle) ==
    LET routing_scores ==
            [i \in 1..Len(exchanges) |->
                RoutingScore(exchanges[i], oracle[i].success_prob,
                             oracle[i].impact)]
        total_score == SumSeq(routing_scores)
    IN  [i \in 1..Len(exchanges) |->
            <<exchanges[i].exchange_id,
              RMul(RDiv(RInt(routing_scores[i]), RInt(total_score)),
                   RInt(order_size))>>]

\* MLRoutingEngine.update_performance: append to the bounded deque
UpdatePerformance(history, execution_data) ==
    IF Len(history) = PerformanceMaxLen
    THEN Append(Tail(history), execution_data)
    ELSE Append(history, execution_data)

(***************************************************************************)
(* The router: SmartOrderRouter.route_order under the asyncio event loop.  *)
(* A coroutine runs without interruption from one suspension point to the  *)
(* next; the loop runs its ready callbacks first in, first out.            *)
(***************************************************************************)
\* orders handed to route_order: Order(symbol, quantity, order_type, side),
\* price None; the order id is the number of the cycle
Order(symbol, quantity, order_type, side) ==
    [symbol |-> symbol, quantity |-> quantity, order_type |-> order_type,
     side |-> side]
Orders ==
    { Order("AAPL", 1000, "MARKET", "BUY"),
      Order("AAPL", 1000, "LIMIT", "SELL"),
      Order("XYZ", 1000, "MARKET", "SELL"),
      Order("AAPL", 0, "MARKET", "BUY") }

NoOrder == [symbol |-> "", quantity |-> 0, order_type |-> "", side |-> ""]
NoResult == [none |-> TRUE]

\* a route_order coroutine that has not been called yet
NewCycle ==
    [pc |-> "new", order |-> NoOrder, exchange_features |-> <<>>,
     allocations |-> <<>>, execution_tasks |-> <<>>,
     routing_decisions |-> <<>>, gather |-> "none", result |-> NoResult]

\* the feature collection without its is_active test
EligibleExchangesAnyState(symbol) ==
    SelectSeq([v \in 1..NumVenues |-> v],
              LAMBDA v : GetMarketData(v, symbol) # NoData)

\* the active venues that report market data for the symbol, in the order
\* of self.exchanges
EligibleExchanges(symbol) ==
    SelectSeq([v \in 1..NumVenues |-> v],
              LAMBDA v : is_active[v] /\ GetMarketData(v, symbol) # NoData)

\* the ExchangeFeatures built for one venue; exchange_id is the venue's
\* index in ExchangeConfigs
BuildFeatures(v, symbol, volume_imbalance) ==
    LET market_data == GetMarketData(v, symbol)
        status == GetExchangeStatus(v)
    IN  [exchange_id |-> v,
         latency_ms |-> status.latency_ms,
         liquidity_score |-> status.liquidity_score,
         spread |-> market_data.spread,
         volume_imbalance |-> volume_imbalance,
         historical_fill_rate |-> 950,
         fee_percentage |-> status.fee_percentage,
         market_impact_estimate |-> 1000]

\* the feature collection loop of route_order
CollectFeatures(symbol, oracle) ==
    LET eligible == EligibleExchanges(symbol)
    IN  [i \in 1..Len(eligible) |->
            BuildFeatures(eligible[i], symbol, oracle[i].volume_imbalance)]

\* a dispatch loop that lets an allocation of zero through
DispatchedNonNegative(allocations) ==
    SelectSeq(allocations, LAMBDA a : a[2][1] >= 0)

\* the allocations that get a child order: allocated_qty > 0
Dispatched(allocations) == SelectSeq(allocations, LAMBDA a : RPos(a[2]))

\* the child orders of the execution tasks, in dispatch order
ExecutionTasks(order, allocations) ==
    LET d == Dispatched(allocations)
    IN  [i \in 1..Len(d) |->
            [exchange_id |-> d[i][1],
             sub_order |-> [symbol |-> order.symbol, quantity |-> d[i][2],
                            order_type |-> order.order_type,
                            side |-> order.side],
             state |-> "pending", outcome |-> NoResult]]

\* routing_decisions, one per execution task
RoutingDecisions(order, allocations) ==
    LET d == Dispatched(allocations)
    IN  [i \in 1..Len(d) |->
            [exchange_id |-> d[i][1],
             allocated_quantity |-> d[i][2],
             confidence_score |-> RDiv(d[i][2], RInt(order.quantity))]]

\* the results of the children that succeeded
Successful(execution_results) ==
    SelectSeq(execution_results, LAMBDA r : r.success)

\* the aggregation of route_order; execution_time_ms, a wall clock
\* difference, is left out
AggregateResults(c, order, routing_decisions, execution_results) ==
    LET ok == Successful(execution_results)
        total_executed ==
            RSum([i \in 1..Len(ok) |-> ok[i].executed_quantity])
        total_fees == RSum([i \in 1..Len(ok) |-> ok[i].fee])
        weighted_price ==
            RSum([i \in 1..Len(ok) |->
                    RMul(ok[i].executed_price, ok[i].executed_quantity)])
    IN  [order_id |-> c,
         success |-> RPos(total_executed),
         total_executed |-> total_executed,
         average_price |-> IF RPos(total_executed)
                           THEN RDiv(weighted_price, total_executed)
                           ELSE Zero,
         total_fees |-> total_fees,
         routing_decisions |-> routing_decisions,
         fill_rate |-> IF order.quantity > 0
                       THEN RDiv(total_executed, RInt(order.quantity))
                       ELSE Zero]

\* the result returned when no venue qualifies
NoActiveExchanges(c) ==
    [order_id |-> c, success |-> FALSE, reason |-> "No active exchanges"]

Entry(kind, c, i) == [kind |-> kind, c |-> c, i |-> i]

Init ==
    /\ is_active = [v \in Venues |-> TRUE]
    /\ liquidity_factor \in [Venues -> LiquiditySet]
    /\ fee_percentage \in [Venues -> FeeSet]
    /\ \E base \in [Venues -> BasePriceSet], raw \in [Venues -> RawVolumeSet] :
          order_books =
              [v \in Venues |->
                  [s \in ListedSymbols |->
                      GenerateOrderBook(base[v], liquidity_factor[v],
                                        raw[v], raw[v])]]
    /\ executed_orders = [v \in Venues |-> <<>>]
    /\ routing_history = <<>>
    /\ total_volume_routed = Zero
    /\ total_orders_routed = 0
    /\ performance_history = <<>>
    /\ cycle = [c \in Cycles |-> NewCycle]
    /\ ready = <<>>
    /\ last_call = NoCall

\* is_active is a public field that no method writes: whoever holds the
\* router takes a venue out of service by clearing it
Deactivate(v) ==
    /\ is_active[v]
    /\ is_active' = [is_active EXCEPT ![v] = FALSE]
    /\ UNCHANGED <<liquidity_factor, fee_percentage, order_books,
                   executed_orders, routerVars, cycle, ready, last_call>>

\* a caller creates the task of route_order(order)
Submit(c, order) ==
    /\ cycle[c].pc = "new"
    /\ \A d \in Cycles : d < c => cycle[d].pc # "new"
    /\ cycle' = [cycle EXCEPT ![c] = [@ EXCEPT !.pc = "scheduled",
                                               !.order = order]]
    /\ ready' = Append(ready, Entry("route", c, 0))
    /\ UNCHANGED <<venueVars, routerVars, last_call>>

\* an early return that counts the order all the same
RouteNoExchangesCounted(c) ==
    /\ ready # <<>> /\ Head(ready) = Entry("route", c, 0)
    /\ EligibleExchanges(cycle[c].order.symbol) = <<>>
    /\ cycle' = [cycle EXCEPT ![c] = [@ EXCEPT !.pc = "returned",
                                               !.result = NoActiveExchanges(c)]]
    /\ ready' = Tail(ready)
    /\ total_orders_routed' = total_orders_routed + 1
    /\ UNCHANGED <<venueVars, routing_history, total_volume_routed,
                   performance_history, last_call>>

\* route_order from its call to the early return: no venue qualifies
RouteNoExchanges(c) ==
    /\ ready # <<>> /\ Head(ready) = Entry("route", c, 0)
    /\ EligibleExchanges(cycle[c].order.symbol) = <<>>
    /\ cycle' = [cycle EXCEPT ![c] = [@ EXCEPT !.pc = "returned",
                                               !.result = NoActiveExchanges(c)]]
    /\ ready' = Tail(ready)
    /\ UNCHANGED <<venueVars, routerVars, last_call>>

\* a completion that appends the result without counting the order
RouteNoTasksUncounted(c) ==
    /\ ready # <<>> /\ Head(ready) = Entry("route", c, 0)
    /\ LET order == cycle[c].order
           n == Len(EligibleExchanges(order.symbol))
       IN  /\ n > 0
           /\ \E oracle \in [1..n -> OracleCases] :
                LET exchange_features == CollectFeatures(order.symbol, oracle)
                    allocations ==
                        CalculateOptimalRouting(order.quantity,
                                                exchange_features, oracle)
                    result == AggregateResults(c, order, <<>>, <<>>)
                IN  /\ Dispatched(allocations) = <<>>
                    /\ cycle' = [cycle EXCEPT ![c] =
                                   [@ EXCEPT !.pc = "returned",
                                             !.exchange_features = exchange_features,
                                             !.allocations = allocations,
                                             !.result = result]]
                    /\ total_volume_routed' =
                           RAdd(total_volume_routed, result.total_executed)
                    /\ total_orders_routed' = total_orders_routed
                    /\ performance_history' =
                           UpdatePerformance(performance_history, result)
                    /\ routing_history' = Append(routing_history, result)
    /\ ready' = Tail(ready)
    /\ UNCHANGED <<venueVars, last_call>>

\* a completion that writes the counter from the value it had when the
\* router was built
RouteNoTasksStaleCount(c) ==
    /\ ready # <<>> /\ Head(ready) = Entry("route", c, 0)
    /\ LET order == cycle[c].order
           n == Len(EligibleExchanges(order.symbol))
       IN  /\ n > 0
           /\ \E oracle \in [1..n -> OracleCases] :
                LET exchange_features == CollectFeatures(order.symbol, oracle)
                    allocations ==
                        CalculateOptimalRouting(order.quantity,
                                                exchange_features, oracle)
                    result == AggregateResults(c, order, <<>>, <<>>)
                IN  /\ Dispatched(allocations) = <<>>
                    /\ cycle' = [cycle EXCEPT ![c] =
                                   [@ EXCEPT !.pc = "returned",
                                             !.exchange_features = exchange_features,
                                             !.allocations = allocations,
                                             !.result = result]]
                    /\ total_volume_routed' =
                           RAdd(total_volume_routed, result.total_executed)
                    /\ total_orders_routed' = 1
                    /\ performance_history' =
                           UpdatePerformance(performance_history, result)
                    /\ routing_history' = Append(routing_history, result)
    /\ ready' = Tail(ready)
    /\ UNCHANGED <<venueVars, last_call>>

\* a completion that keeps only the most recent result in the history
RouteNoTasksEvicting(c) ==
    /\ ready # <<>> /\ Head(ready) = Entry("route", c, 0)
    /\ LET order == cycle[c].order
           n == Len(EligibleExchanges(order.symbol))
       IN  /\ n > 0
           /\ \E oracle \in [1..n -> OracleCases] :
                LET exchange_features == CollectFeatures(order.symbol, oracle)
                    allocations ==
                        CalculateOptimalRouting(order.quantity,
                                                exchange_features, oracle)
                    result == AggregateResults(c, order, <<>>, <<>>)
                IN  /\ Dispatched(allocations) = <<>>
                    /\ cycle' = [cycle EXCEPT ![c] =
                                   [@ EXCEPT !.pc = "returned",
                                             !.exchange_features = exchange_features,
                                             !.allocations = allocations,
                                             !.result = result]]
                    /\ total_volume_routed' =
                           RAdd(total_volume_routed, result.total_executed)
                    /\ total_orders_routed' = total_orders_routed + 1
                    /\ performance_history' =
                           UpdatePerformance(performance_history, result)
                    /\ routing_history' = <<result>>
    /\ ready' = Tail(ready)
    /\ UNCHANGED <<venueVars, last_call>>

\* route_order from its call to its return when no allocation is positive:
\* gather() of no task is done at once, so the coroutine does not suspend
RouteNoTasks(c) ==
    /\ ready # <<>> /\ Head(ready) = Entry("route", c, 0)
    /\ LET order == cycle[c].order
           n == Len(EligibleExchanges(order.symbol))
       IN  /\ n > 0
           /\ \E oracle \in [1..n -> OracleCases] :
                LET exchange_features == CollectFeatures(order.symbol, oracle)
                    allocations ==
                        CalculateOptimalRouting(order.quantity,
                                                exchange_features, oracle)
                    result == AggregateResults(c, order, <<>>, <<>>)
                IN  /\ Dispatched(allocations) = <<>>
                    /\ cycle' = [cycle EXCEPT ![c] =
                                   [@ EXCEPT !.pc = "returned",
                                             !.exchange_features = exchange_features,
                                             !.allocations = allocations,
                                             !.result = result]]
                    /\ total_volume_routed' =
                           RAdd(total_volume_routed, result.total_executed)
                    /\ total_orders_routed' = total_orders_routed + 1
                    /\ performance_history' =
                           UpdatePerformance(performance_history, result)
                    /\ routing_history' = Append(routing_history, result)
    /\ ready' = Tail(ready)
    /\ UNCHANGED <<venueVars, last_call>>

\* the same cycle when update_performance raises: its deque append can run
\* out of memory, and route_order has no handler around it, so the
\* exception leaves route_order after the counters were written and before
\* the result is appended to routing_history
RouteNoTasksHookRaises(c) ==
    /\ ready # <<>> /\ Head(ready) = Entry("route", c, 0)
    /\ LET order == cycle[c].order
           n == Len(EligibleExchanges(order.symbol))
       IN  /\ n > 0
           /\ \E oracle \in [1..n -> OracleCases] :
                LET exchange_features == CollectFeatures(order.symbol, oracle)
                    allocations ==
                        CalculateOptimalRouting(order.quantity,
                                                exchange_features, oracle)
                    result == AggregateResults(c, order, <<>>, <<>>)
                IN  /\ Dispatched(allocations) = <<>>
                    /\ cycle' = [cycle EXCEPT ![c] =
                                   [@ EXCEPT !.pc = "raised",
                                             !.exchange_features = exchange_features,
                                             !.allocations = allocations,
                                             !.result =
                                                 [exception |-> "MemoryError"]]]
                    /\ total_volume_routed' =
                           RAdd(total_volume_routed, result.total_executed)
                    /\ total_orders_routed' = total_orders_routed + 1
                    /\ UNCHANGED <<performance_history, routing_history>>
    /\ ready' = Tail(ready)
    /\ UNCHANGED <<venueVars, last_call>>

\* route_order from its call to the await of gather: the children become
\* tasks, ready in dispatch order
RouteDispatch(c) ==
    /\ ready # <<>> /\ Head(ready) = Entry("route", c, 0)
    /\ LET order == cycle[c].order
           n == Len(EligibleExchanges(order.symbol))
       IN  /\ n > 0
           /\ \E oracle \in [1..n -> OracleCases] :
                LET exchange_features == CollectFeatures(order.symbol, oracle)
                    allocations ==
                        CalculateOptimalRouting(order.quantity,
                                                exchange_features, oracle)
                    tasks == ExecutionTasks(order, allocations)
                IN  /\ tasks # <<>>
                    /\ cycle' = [cycle EXCEPT ![c] =
                                   [@ EXCEPT !.pc = "joining",
                                             !.exchange_features = exchange_features,
                                             !.allocations = allocations,
                                             !.execution_tasks = tasks,
                                             !.routing_decisions =
                                                 RoutingDecisions(order, allocations),
                                             !.gather = "pending"]]
                    /\ ready' = Tail(ready) \o
                                [i \in 1..Len(tasks) |-> Entry("execute", c, i)]
    /\ UNCHANGED <<venueVars, routerVars, last_call>>

\* execute_order, first step of the child task: random.exponential is no
\* attribute of the random module, so the latency line raises
\* AttributeError before the sleep and before the order is looked at
ExecuteOrder(c, i) ==
    /\ ready # <<>> /\ Head(ready) = Entry("execute", c, i)
    /\ cycle' = [cycle EXCEPT ![c].execution_tasks[i] =
                    [@ EXCEPT !.state = "raised",
                              !.outcome = [exception |-> "AttributeError"]]]
    /\ ready' = Append(Tail(ready), Entry("child_done", c, i))
    /\ UNCHANGED <<venueVars, routerVars, last_call>>

\* gather's callback for a finished child (return_exceptions is False): the
\* first exception is set on the awaited future and wakes route_order
ChildDone(c, i) ==
    /\ ready # <<>> /\ Head(ready) = Entry("child_done", c, i)
    /\ \/ /\ cycle[c].gather = "pending"
          /\ cycle' = [cycle EXCEPT ![c].gather = "exception"]
          /\ ready' = Append(Tail(ready), Entry("wakeup", c, 0))
       \/ /\ cycle[c].gather # "pending"
          /\ ready' = Tail(ready)
          /\ UNCHANGED cycle
    /\ UNCHANGED <<venueVars, routerVars, last_call>>

\* a route_order that counts the order on its way out with the exception,
\* as a finally clause would
RouteRaiseCounting(c) ==
    /\ ready # <<>> /\ Head(ready) = Entry("wakeup", c, 0)
    /\ cycle[c].gather = "exception"
    /\ cycle' = [cycle EXCEPT ![c] =
                    [@ EXCEPT !.pc = "raised",
                              !.result = [exception |-> "AttributeError"]]]
    /\ ready' = Tail(ready)
    /\ total_orders_routed' = total_orders_routed + 1
    /\ UNCHANGED <<venueVars, routing_history, total_volume_routed,
                   performance_history, last_call>>

\* route_order resumed at the await: the child's exception is raised there
\* and leaves route_order
RouteRaise(c) ==
    /\ ready # <<>> /\ Head(ready) = Entry("wakeup", c, 0)
    /\ cycle[c].gather = "exception"
    /\ cycle' = [cycle EXCEPT ![c] =
                    [@ EXCEPT !.pc = "raised",
                              !.result = [exception |-> "AttributeError"]]]
    /\ ready' = Tail(ready)
    /\ UNCHANGED <<venueVars, routerVars, last_call>>

(***************************************************************************)
(* calculate_optimal_routing called on its own.  It is a public method of  *)
(* the engine and takes any list of ExchangeFeatures: the features below   *)
(* go beyond what route_order builds (a venue with no liquidity, a fee of  *)
(* 4 percent, a latency where tanh has reached 1), and so does an engine   *)
(* whose is_trained flag is off.  The function keeps nothing between two   *)
(* calls, so one call from the initial state stands for every call.        *)
(***************************************************************************)
CallSizes == {0, 1000}
\* what the models may answer by their contract, a market impact of 5
\* percent included
AllocAnswers ==
    OracleCases \cup
        { [volume_imbalance |-> 0, success_prob |-> 200, impact |-> 50000] }
FeatureInputs ==
    [latency_ms : {30, 4000}, liquidity_score : {0, 1000},
     fee_percentage : {2000, 40000}]

\* the ExchangeFeatures of the i-th entry of the list
Features(i, f) ==
    [exchange_id |-> i,
     latency_ms |-> f.latency_ms,
     liquidity_score |-> f.liquidity_score,
     spread |-> 2,
     volume_imbalance |-> 0,
     historical_fill_rate |-> 950,
     fee_percentage |-> f.fee_percentage,
     market_impact_estimate |-> 1000]

CallCalculateOptimalRouting(order_size, is_trained, features, answers) ==
    LET exchanges == [i \in DOMAIN features |-> Features(i, features[i])]
        oracle == [i \in DOMAIN features |->
                      [success_prob |->
                           PredictRoutingSuccess(is_trained, answers[i]),
                       impact |->
                           PredictMarketImpact(is_trained, answers[i])]]
    IN  /\ last_call = NoCall
        /\ last_call' =
              [op |-> "calculate_optimal_routing",
               order_size |-> order_size,
               is_trained |-> is_trained,
               exchanges |-> exchanges,
               oracle |-> oracle,
               ret |-> CalculateOptimalRouting(order_size, exchanges, oracle)]
        /\ UNCHANGED <<venueVars, routerVars, cycle, ready>>

NextAlloc ==
    \E n \in 0..NumVenues, order_size \in CallSizes, is_trained \in BOOLEAN :
        \E features \in [1..n -> FeatureInputs],
           answers \in [1..n -> AllocAnswers] :
            CallCalculateOptimalRouting(order_size, is_trained, features,
                                        answers)

SpecAlloc == Init /\ [][NextAlloc]_vars

(***************************************************************************)
(* The synchronous reads, called by a client of the router between two     *)
(* callbacks of the event loop.                                            *)
(***************************************************************************)
\* SmartOrderRouter.get_routing_statistics; avg_execution_time_ms, a mean
\* of wall clock differences, is left out
GetRoutingStatistics ==
    IF routing_history = <<>>
    THEN [message |-> "No routing history available",
          total_orders |-> 0,
          total_volume |-> Zero]
    ELSE LET successful_orders ==
                 SelectSeq(routing_history, LAMBDA r : r.success)
         IN  [total_orders |-> total_orders_routed,
              total_volume |-> total_volume_routed,
              success_rate |-> Rat(Len(successful_orders),
                                   Len(routing_history)),
              exchange_statistics |-> <<>>]

\* the symbol the client asks market data for; route_order asks for the
\* unknown symbol as well
ReadSymbols == {"AAPL"}

\* the call repeats the call before it: same method, same arguments
Repeats(op, args) ==
    /\ last_call.op = op
    /\ last_call.args = args

\* a get_market_data that takes the best bid off the book it reads
GetMarketDataCallConsuming(v, symbol) ==
    /\ last_call' = [op |-> "get_market_data", args |-> <<v, symbol>>,
                     repeat |-> Repeats("get_market_data", <<v, symbol>>),
                     ret |-> GetMarketData(v, symbol)]
    /\ order_books' =
           [order_books EXCEPT ![v] =
               [s \in DOMAIN @ |->
                   IF s = symbol
                   THEN [@[s] EXCEPT !.bids = Tail(@)]
                   ELSE @[s]]]
    /\ UNCHANGED <<is_active, liquidity_factor, fee_percentage,
                   executed_orders, routerVars, cycle, ready>>

\* a call of get_market_data on venue v
GetMarketDataCall(v, symbol) ==
    /\ last_call' = [op |-> "get_market_data", args |-> <<v, symbol>>,
                     repeat |-> Repeats("get_market_data", <<v, symbol>>),
                     ret |-> GetMarketData(v, symbol)]
    /\ UNCHANGED <<venueVars, routerVars, cycle, ready>>

\* a get_routing_statistics that counts itself as an order
GetRoutingStatisticsCallCounting ==
    /\ last_call' = [op |-> "get_routing_statistics", args |-> <<>>,
                     repeat |-> Repeats("get_routing_statistics", <<>>),
                     ret |-> GetRoutingStatistics]
    /\ total_orders_routed' = total_orders_routed + 1
    /\ UNCHANGED <<venueVars, routing_history, total_volume_routed,
                   performance_history, cycle, ready>>

\* a call of get_routing_statistics
GetRoutingStatisticsCall ==
    /\ last_call' = [op |-> "get_routing_statistics", args |-> <<>>,
                     repeat |-> Repeats("get_routing_statistics", <<>>),
                     ret |-> GetRoutingStatistics]
    /\ UNCHANGED <<venueVars, routerVars, cycle, ready>>

Next ==
    \/ \E v \in Venues : Deactivate(v)
    \/ \E c \in Cycles, order \in Orders : Submit(c, order)
    \/ \E c \in Cycles : RouteNoExchanges(c)
    \/ \E c \in Cycles : RouteNoTasks(c)
    \/ \E c \in Cycles : RouteDispatch(c)
    \/ \E c \in Cycles, i \in 1..NumVenues : ExecuteOrder(c, i)
    \/ \E c \in Cycles, i \in 1..NumVenues : ChildDone(c, i)
    \/ \E c \in Cycles : RouteRaise(c)

Spec == Init /\ [][Next]_vars

\* one callback of the event loop: the step of the coroutine or of the
\* gather callback at the head of the ready queue
LoopStep ==
    \/ \E c \in Cycles : RouteNoExchanges(c)
    \/ \E c \in Cycles : RouteNoTasks(c)
    \/ \E c \in Cycles : RouteDispatch(c)
    \/ \E c \in Cycles, i \in 1..NumVenues : ExecuteOrder(c, i)
    \/ \E c \in Cycles, i \in 1..NumVenues : ChildDone(c, i)
    \/ \E c \in Cycles : RouteRaise(c)

\* the router under a running event loop: asyncio runs the callback at the
\* head of its ready queue as long as there is one
SpecFair == Init /\ [][Next]_vars /\ WF_vars(LoopStep)

\* the router with a client that also calls the reads
NextReads ==
    \/ Next
    \/ \E v \in Venues, symbol \in ReadSymbols : GetMarketDataCall(v, symbol)
    \/ GetRoutingStatisticsCall

SpecReads == Init /\ [][NextReads]_vars

\* the router when update_performance may raise
NextHookFails ==
    \/ Next
    \/ \E c \in Cycles : RouteNoTasksHookRaises(c)

SpecHookFails == Init /\ [][NextHookFails]_vars


(***************************************************************************)
(* Properties of route_order and the venues.                               *)
(***************************************************************************)
Ended(c) == cycle[c].pc \in {"returned", "raised"}
Tasks(c) == cycle[c].execution_tasks
TaskIds(c) == 1..Len(Tasks(c))
Finished(task) == task.state # "pending"
AllocatedQuantities(c) ==
    [i \in 1..Len(cycle[c].allocations) |-> cycle[c].allocations[i][2]]
ChildQuantities(c) == [i \in TaskIds(c) |-> Tasks(c)[i].sub_order.quantity]
\* the results of the children of a cycle that returned one
ExecutionResults(c) ==
    LET done == SelectSeq(Tasks(c), LAMBDA t : t.state = "returned")
    IN  [i \in 1..Len(done) |-> done[i].outcome]
\* no active venue reports market data for the symbol
NoVenueReports(symbol) ==
    \A v \in Venues : ~is_active[v] \/ symbol \notin DOMAIN order_books[v]

\* C1: every route_order cycle that has ended has returned a result that
\* carries a success flag; none has ended by raising an exception.
C1_RouteAlwaysReturnsResult ==
    \A c \in Cycles :
        Ended(c) =>
            /\ cycle[c].pc = "returned"
            /\ "success" \in DOMAIN cycle[c].result

\* C2: a route_order call made while no active venue reports market data
\* for the order's symbol returns success = FALSE with the reason "No active
\* exchanges" in that same step, creates no child task and does not raise.
C2_NoVenueReturnsFailure ==
    [][\A c \in Cycles :
          ( /\ cycle[c].pc = "scheduled"
            /\ cycle'[c].pc # "scheduled"
            /\ NoVenueReports(cycle[c].order.symbol) )
          => /\ cycle'[c].pc = "returned"
             /\ cycle'[c].result =
                    [order_id |-> c, success |-> FALSE,
                     reason |-> "No active exchanges"]
             /\ cycle'[c].execution_tasks = <<>>
             /\ ready' = Tail(ready)]_vars

\* a cycle for a listed symbol has returned the failure while every venue
\* is inactive
C2_Witness ==
    \E c \in Cycles :
        /\ cycle[c].pc = "returned"
        /\ cycle[c].order.symbol \in ListedSymbols
        /\ cycle[c].order.quantity > 0
        /\ \A v \in Venues : ~is_active[v]
        /\ "reason" \in DOMAIN cycle[c].result
        /\ cycle[c].result.reason = "No active exchanges"

C4_CounterCountsSuccesses ==
    \A v \in Venues :
        GetExchangeStatus(v).total_executed =
            Cardinality({ <<c, i>> \in Cycles \X (1..NumVenues) :
                            /\ i \in TaskIds(c)
                            /\ Tasks(c)[i].exchange_id = v
                            /\ Finished(Tasks(c)[i])
                            /\ Tasks(c)[i].sub_order.order_type = "MARKET"
                            /\ Tasks(c)[i].sub_order.symbol
                                   \in DOMAIN order_books[v] })

\* C5: a cycle that dispatched children leaves its join only when all of
\* them have finished, and then holds the aggregate of all their results.
C5_JoinAllThenAggregate ==
    \A c \in Cycles :
        (Ended(c) /\ Tasks(c) # <<>>)
        => /\ \A i \in TaskIds(c) : Finished(Tasks(c)[i])
           /\ Len(ExecutionResults(c)) = Len(Tasks(c))
           /\ cycle[c].result =
                  AggregateResults(c, cycle[c].order,
                                   cycle[c].routing_decisions,
                                   ExecutionResults(c))

\* C6: every cycle that got past feature collection and has ended holds a
\* result whose fill_rate is total_executed / quantity, within [0, 1], and
\* 0 exactly when total_executed is 0.
C6_FillRateInUnitInterval ==
    \A c \in Cycles :
        (Ended(c) /\ cycle[c].exchange_features # <<>>)
        => /\ "fill_rate" \in DOMAIN cycle[c].result
           /\ RLe(Zero, cycle[c].result.fill_rate)
           /\ RLe(cycle[c].result.fill_rate, RInt(1))
           /\ (cycle[c].result.fill_rate = Zero
                  <=> cycle[c].result.total_executed = Zero)
           /\ cycle[c].order.quantity > 0 =>
                  cycle[c].result.fill_rate =
                      RDiv(cycle[c].result.total_executed,
                           RInt(cycle[c].order.quantity))

\* C7: the result of a cycle that dispatched children sums executed
\* quantity and fees over the successful children only, and its success
\* flag is TRUE exactly when the total executed quantity is positive.
C7_AggregateOverSuccessesOnly ==
    \A c \in Cycles :
        (Ended(c) /\ Tasks(c) # <<>>)
        => LET ok == Successful(ExecutionResults(c))
           IN  /\ "total_executed" \in DOMAIN cycle[c].result
               /\ cycle[c].result.total_executed =
                      RSum([i \in 1..Len(ok) |-> ok[i].executed_quantity])
               /\ cycle[c].result.total_fees =
                      RSum([i \in 1..Len(ok) |-> ok[i].fee])
               /\ (cycle[c].result.success
                      <=> RPos(cycle[c].result.total_executed))

\* C8: a finished execution of a LIMIT child has returned success = FALSE
\* (no exception, nothing executed, no fee).
C8_LimitChildFailsAsData ==
    \A c \in Cycles : \A i \in TaskIds(c) :
        (Finished(Tasks(c)[i]) /\ Tasks(c)[i].sub_order.order_type = "LIMIT")
        => /\ Tasks(c)[i].state = "returned"
           /\ Tasks(c)[i].outcome.success = FALSE
           /\ "executed_quantity" \notin DOMAIN Tasks(c)[i].outcome
           /\ "fee" \notin DOMAIN Tasks(c)[i].outcome

\* C9: a finished execution of a MARKET child on a symbol the venue lists
\* has returned the top-of-book ask (BUY) or bid (SELL) as price, the
\* smaller of the requested quantity and the top-of-book volume of that
\* side as quantity, and quantity x price x fee rate as fee.
C9_MarketChildFillsAtTopOfBook ==
    \A c \in Cycles : \A i \in TaskIds(c) :
        LET task == Tasks(c)[i]
            v == task.exchange_id
            o == task.sub_order
        IN  ( /\ Finished(task)
              /\ o.order_type = "MARKET"
              /\ o.symbol \in DOMAIN order_books[v] )
            => LET book == order_books[v][o.symbol]
                   top == IF o.side = "BUY" THEN book.asks[1]
                                            ELSE book.bids[1]
               IN  /\ task.state = "returned"
                   /\ task.outcome.success
                   /\ task.outcome.executed_price = RInt(top[1])
                   /\ task.outcome.executed_quantity =
                          RMin(o.quantity, RInt(top[2]))
                   /\ RLe(task.outcome.executed_quantity, o.quantity)
                   /\ task.outcome.fee =
                          RMul(RMul(task.outcome.executed_quantity,
                                    task.outcome.executed_price),
                               Rat(fee_percentage[v], 1000000))

\* C10: the result of a cycle that dispatched children carries an average
\* price that lies between the lowest and the highest executed price of the
\* children that filled, and is 0 when none filled.
C10_AveragePriceWithinFills ==
    \A c \in Cycles :
        (Ended(c) /\ Tasks(c) # <<>>)
        => LET ok == Successful(ExecutionResults(c))
               filled == { i \in 1..Len(ok) : RPos(ok[i].executed_quantity) }
           IN  /\ "average_price" \in DOMAIN cycle[c].result
               /\ filled = {} => cycle[c].result.average_price = Zero
               /\ filled # {} =>
                      /\ \E i \in filled :
                            RLe(ok[i].executed_price,
                                cycle[c].result.average_price)
                      /\ \E i \in filled :
                            RLe(cycle[c].result.average_price,
                                ok[i].executed_price)

\* the cycle has run its dispatch loop
PastDispatch(c) ==
    /\ cycle[c].pc \in {"joining", "returned", "raised"}
    /\ cycle[c].exchange_features # <<>>

C14_AllInactiveResultHasEmptyDecisions ==
    [][\A c \in Cycles :
          ( /\ cycle[c].pc = "scheduled"
            /\ cycle'[c].pc # "scheduled"
            /\ \A v \in Venues : ~is_active[v] )
          => /\ cycle'[c].pc = "returned"
             /\ ~cycle'[c].result.success
             /\ "routing_decisions" \in DOMAIN cycle'[c].result
             /\ cycle'[c].result.routing_decisions = <<>>]_vars

\* C15: a venue that is inactive when route_order collects the features,
\* or has no order book for the symbol, gets no feature, no allocation, no
\* child order and no routing decision in that cycle; when another venue
\* qualifies the cycle goes on to dispatch and does not return the failure.
C15_SkippedVenueGetsNothing ==
    [][\A c \in Cycles :
          ( /\ cycle[c].pc = "scheduled"
            /\ cycle'[c].pc # "scheduled" )
          => LET symbol == cycle[c].order.symbol
                 skipped == {v \in Venues :
                                \/ ~is_active[v]
                                \/ symbol \notin DOMAIN order_books[v]}
                 after == cycle'[c]
             IN  /\ \A v \in skipped :
                       /\ \A i \in 1..Len(after.exchange_features) :
                             after.exchange_features[i].exchange_id # v
                       /\ \A i \in 1..Len(after.allocations) :
                             after.allocations[i][1] # v
                       /\ \A i \in 1..Len(after.execution_tasks) :
                             after.execution_tasks[i].exchange_id # v
                       /\ \A i \in 1..Len(after.routing_decisions) :
                             after.routing_decisions[i].exchange_id # v
                 /\ skipped # Venues
                       => /\ after.pc \in {"joining", "returned"}
                          /\ Len(after.allocations) =
                                 Cardinality(Venues \ skipped)
                          /\ after.pc = "returned"
                                => "reason" \notin DOMAIN after.result]_vars

\* a cycle waits for its children while a venue is inactive, and it has
\* dispatched to every venue but that one
C15_Witness ==
    \E c \in Cycles, v \in Venues :
        /\ cycle[c].pc = "joining"
        /\ ~is_active[v]
        /\ Len(cycle[c].execution_tasks) = NumVenues - 1
        /\ Len(cycle[c].execution_tasks) > 0
        /\ \A i \in 1..Len(cycle[c].execution_tasks) :
              cycle[c].execution_tasks[i].exchange_id # v

\* the cycle has run the completion of route_order and returned its
\* aggregate
Completed(c) ==
    /\ cycle[c].pc = "returned"
    /\ "total_executed" \in DOMAIN cycle[c].result

\* C18: the step in which a cycle completes adds 1 to total_orders_routed,
\* the cycle's total_executed to total_volume_routed and the cycle's result,
\* once, to routing_history, and no other step changes them; so in every
\* state the order counter is the length of the history and the volume
\* counter is the sum of total_executed over the history.
C18_CompletionCountsOnce ==
    /\ [](/\ total_orders_routed = Len(routing_history)
          /\ total_volume_routed =
                 RSum([i \in 1..Len(routing_history) |->
                          routing_history[i].total_executed]))
    /\ [][/\ \A c \in Cycles :
               ( /\ ~Completed(c)
                 /\ cycle'[c].pc = "returned"
                 /\ "total_executed" \in DOMAIN cycle'[c].result )
               => /\ total_orders_routed' = total_orders_routed + 1
                  /\ total_volume_routed' =
                         RAdd(total_volume_routed,
                              cycle'[c].result.total_executed)
                  /\ routing_history' =
                         Append(routing_history, cycle'[c].result)
          /\ (\A c \in Cycles :
                  Completed(c) \/ cycle'[c].pc # "returned"
                               \/ "total_executed" \notin DOMAIN cycle'[c].result)
               => UNCHANGED <<total_orders_routed, total_volume_routed,
                              routing_history>>]_vars

\* one cycle has completed and is counted, another has ended by raising
C18_Witness ==
    \E c, d \in Cycles :
        /\ Completed(c)
        /\ cycle[d].pc = "raised"
        /\ total_orders_routed = 1
        /\ routing_history = <<cycle[c].result>>

\* the childless cycles that have ended: they went through the completion
ReachedCompletion(c) ==
    /\ Ended(c)
    /\ cycle[c].exchange_features # <<>>
    /\ cycle[c].execution_tasks = <<>>

\* C19: a cycle that has gone through the completion has returned its
\* aggregate, and the aggregate is in routing_history, also when
\* update_performance failed.
C19_HookFailureKeepsResult ==
    \A c \in Cycles :
        ReachedCompletion(c) =>
            /\ Completed(c)
            /\ \E i \in 1..Len(routing_history) :
                  routing_history[i] = cycle[c].result
            /\ total_orders_routed = Len(routing_history)

\* C20: whatever the interleaving of the cycles, the order counter is the
\* number of completed cycles, the volume counter is the sum of their
\* total_executed, and routing_history holds the result of each completed
\* cycle exactly once and nothing else.
C20_NoLostUpdates ==
    LET done == {c \in Cycles : Completed(c)}
    IN  /\ total_orders_routed = Cardinality(done)
        /\ total_volume_routed =
               RSum([c \in 1..MaxCycles |->
                        IF Completed(c) THEN cycle[c].result.total_executed
                                        ELSE Zero])
        /\ Len(routing_history) = Cardinality(done)
        /\ \A c \in done :
              Cardinality({i \in 1..Len(routing_history) :
                              routing_history[i] = cycle[c].result}) = 1

\* a cycle has completed and is counted while another, called before it,
\* is waiting for its children
C20_Witness ==
    \E c, d \in Cycles :
        /\ c < d
        /\ cycle[c].pc = "joining"
        /\ Completed(d)
        /\ total_orders_routed = 1

\* C21: a cycle with children ends by returning its aggregate, also when a
\* child did not complete its execution: that child is marked failed
\* (success = FALSE) and the results of its siblings are aggregated.
C21_UncompletedChildMarkedFailed ==
    \A c \in Cycles :
        (Ended(c) /\ Tasks(c) # <<>>)
        => /\ Completed(c)
           /\ \A i \in TaskIds(c) :
                 Tasks(c)[i].state # "returned"
                 => /\ "success" \in DOMAIN Tasks(c)[i].outcome
                    /\ ~Tasks(c)[i].outcome.success

\* the callbacks of cycle c that are waiting in the event loop
Waiting(c) == {i \in 1..Len(ready) : ready[i].c = c}

\* C23: a cycle goes through its phases in order.  Before route_order runs
\* it has no features, allocation, child or result; children exist only
\* with the allocation and the features they were computed from; an
\* aggregate exists only in a cycle that has returned, with every child
\* finished; the counters and the history change only in the step in which
\* a cycle returns its aggregate; a cycle that has returned or raised has
\* no callback left and never changes again.
C23_PhasesInOrder ==
    /\ [](\A c \in Cycles :
            /\ cycle[c].pc \in {"new", "scheduled"}
                 => /\ cycle[c].exchange_features = <<>>
                    /\ cycle[c].allocations = <<>>
                    /\ Tasks(c) = <<>>
                    /\ cycle[c].result = NoResult
            /\ Tasks(c) # <<>>
                 => /\ cycle[c].allocations # <<>>
                    /\ Len(cycle[c].allocations) =
                           Len(cycle[c].exchange_features)
            /\ "total_executed" \in DOMAIN cycle[c].result
                 => /\ cycle[c].pc = "returned"
                    /\ \A i \in TaskIds(c) : Finished(Tasks(c)[i])
            /\ cycle[c].pc = "joining" => Tasks(c) # <<>>
            /\ Ended(c) => Waiting(c) = {})
    /\ [][/\ \A c \in Cycles :
               /\ <<cycle[c].pc, cycle'[c].pc>> \in
                     { <<"new", "new">>, <<"new", "scheduled">>,
                       <<"scheduled", "scheduled">>,
                       <<"scheduled", "joining">>,
                       <<"scheduled", "returned">>,
                       <<"joining", "joining">>, <<"joining", "raised">>,
                       <<"returned", "returned">>, <<"raised", "raised">> }
               /\ Ended(c) => cycle'[c] = cycle[c]
               /\ cycle[c].pc = "joining"
                    => /\ cycle'[c].allocations = cycle[c].allocations
                       /\ Len(cycle'[c].execution_tasks) = Len(Tasks(c))
          /\ routerVars' # routerVars
               => \E c \in Cycles :
                     /\ ~Completed(c)
                     /\ cycle'[c].pc = "returned"
                     /\ "total_executed" \in DOMAIN cycle'[c].result]_vars

\* every cycle has ended: one returned its aggregate, the other went
\* through dispatch and the join and raised
C23_Witness ==
    /\ ready = <<>>
    /\ \E c, d \in Cycles :
          /\ Completed(c)
          /\ cycle[d].pc = "raised"
          /\ Len(Tasks(d)) = NumVenues
          /\ \A i \in TaskIds(d) : Finished(Tasks(d)[i])

\* C27: the route_order step that returns early because no venue qualifies
\* changes neither the counters, the history, the performance feedback nor
\* any venue.
C27_EarlyFailureChangesNothing ==
    [][\A c \in Cycles :
          ( /\ cycle[c].pc = "scheduled"
            /\ cycle'[c].pc # "scheduled"
            /\ NoVenueReports(cycle[c].order.symbol) )
          => /\ UNCHANGED <<routing_history, total_volume_routed,
                            total_orders_routed, performance_history>>
             /\ UNCHANGED <<is_active, liquidity_factor, fee_percentage,
                            order_books, executed_orders>>]_vars

\* one cycle has returned early and another has completed: one order is
\* counted
C27_Witness ==
    \E c, d \in Cycles :
        /\ cycle[c].pc = "returned"
        /\ "reason" \in DOMAIN cycle[c].result
        /\ Completed(d)
        /\ total_orders_routed = 1
        /\ Len(routing_history) = 1
        /\ Len(performance_history) = 1

\* C24: a cycle whose children have all completed, and for which the event
\* loop has nothing left to run, has returned its result, whatever the
\* other cycles in flight are doing.
C24_CycleReturnsOnceChildrenComplete ==
    \A c \in Cycles :
        ( /\ Tasks(c) # <<>>
          /\ \A i \in TaskIds(c) : Finished(Tasks(c)[i])
          /\ Waiting(c) = {} )
        => /\ cycle[c].pc = "returned"
           /\ "success" \in DOMAIN cycle[c].result

\* C28: two child orders whose execution has finished at the same venue,
\* in the same cycle or in two, have each been filled against the full
\* top-of-book volume of that venue: the first has not depleted the book
\* for the second.
C28_ExecutionsLeaveBookUndepleted ==
    \A c, d \in Cycles : \A i \in TaskIds(c), j \in TaskIds(d) :
        LET first == Tasks(c)[i]
            second == Tasks(d)[j]
            v == first.exchange_id
            Filled(task) ==
                LET o == task.sub_order
                    book == order_books[v][o.symbol]
                    top == IF o.side = "BUY" THEN book.asks[1]
                                             ELSE book.bids[1]
                IN  /\ task.state = "returned"
                    /\ task.outcome.success
                    /\ task.outcome.executed_quantity =
                           RMin(o.quantity, RInt(top[2]))
        IN  ( /\ <<c, i>> # <<d, j>>
              /\ second.exchange_id = v
              /\ Finished(first) /\ Finished(second)
              /\ first.sub_order.order_type = "MARKET"
              /\ second.sub_order.order_type = "MARKET"
              /\ first.sub_order.symbol \in DOMAIN order_books[v]
              /\ second.sub_order.symbol \in DOMAIN order_books[v] )
            => Filled(first) /\ Filled(second)

\* C29: a cycle for a LIMIT order that dispatched children has given each
\* child the type LIMIT, and once it has ended it has returned
\* success = FALSE, total_executed = 0 and fill_rate = 0 with its routing
\* decisions, and is counted: its result is in routing_history.
C29_LimitParentCompletesUnfilled ==
    \A c \in Cycles :
        ( /\ Ended(c)
          /\ cycle[c].order.order_type = "LIMIT"
          /\ Tasks(c) # <<>> )
        => /\ \A i \in TaskIds(c) :
                 Tasks(c)[i].sub_order.order_type = "LIMIT"
           /\ Completed(c)
           /\ ~cycle[c].result.success
           /\ cycle[c].result.total_executed = Zero
           /\ cycle[c].result.fill_rate = Zero
           /\ cycle[c].result.routing_decisions # <<>>
           /\ total_orders_routed >= 1
           /\ \E i \in 1..Len(routing_history) :
                 routing_history[i] = cycle[c].result

(***************************************************************************)
(* Properties of the reads (SpecReads).                                    *)
(***************************************************************************)
\* the step is a call of the method op
Calls(op) ==
    /\ last_call' # last_call
    /\ last_call'.op = op

\* C16: a call of get_market_data changes nothing of the venues, the router
\* or the cycles in flight, and when it repeats the call before it (same
\* venue, same symbol, whatever ran in between) it returns the same bid,
\* ask, volumes and spread.
C16_MarketDataReadIsIdempotent ==
    [][Calls("get_market_data") =>
          /\ UNCHANGED <<venueVars, routerVars, cycle, ready>>
          /\ last_call'.repeat =>
                /\ last_call'.ret.bid_price = last_call.ret.bid_price
                /\ last_call'.ret.ask_price = last_call.ret.ask_price
                /\ last_call'.ret.bid_volume = last_call.ret.bid_volume
                /\ last_call'.ret.ask_volume = last_call.ret.ask_volume
                /\ last_call'.ret.spread = last_call.ret.spread]_vars

\* get_market_data has been called twice in a row for a venue and a listed
\* symbol, after a child order was executed on that venue
C16_Witness ==
    /\ last_call.op = "get_market_data"
    /\ last_call.repeat
    /\ last_call.ret.spread > 0
    /\ \E c \in Cycles, i \in 1..NumVenues :
          /\ i <= Len(cycle[c].execution_tasks)
          /\ cycle[c].execution_tasks[i].state # "pending"
          /\ cycle[c].execution_tasks[i].exchange_id = last_call.args[1]

\* C17: a call of get_routing_statistics changes nothing of the history,
\* the counters, the venues or the cycles in flight, and with an empty
\* history it returns zero orders and zero volume.
C17_StatisticsReadIsPure ==
    [][Calls("get_routing_statistics") =>
          /\ UNCHANGED <<venueVars, routerVars, cycle, ready>>
          /\ routing_history = <<>> =>
                /\ last_call'.ret.total_orders = 0
                /\ last_call'.ret.total_volume = Zero]_vars

\* the statistics were read with an empty history after a cycle had ended
C17_Witness ==
    /\ last_call.op = "get_routing_statistics"
    /\ routing_history = <<>>
    /\ last_call.ret.total_orders = 0
    /\ \E c \in Cycles : Ended(c)

\* C26: routing_history only grows, by one entry at its end at a time,
\* the result of the cycle that completes in that step; no call of
\* route_order or of get_routing_statistics removes, replaces or moves an
\* entry.
C26_HistoryAppendOnly ==
    [][/\ Len(routing_history') >= Len(routing_history)
       /\ Len(routing_history') <= Len(routing_history) + 1
       /\ \A i \in 1..Len(routing_history) :
             routing_history'[i] = routing_history[i]
       /\ Len(routing_history') = Len(routing_history) + 1
            => \E c \in Cycles :
                  /\ ~Completed(c)
                  /\ cycle'[c].pc = "returned"
                  /\ routing_history'[Len(routing_history')] =
                         cycle'[c].result]_vars

\* two cycles have completed, the statistics were read between the two,
\* and the history holds their results in that order
C26_Witness ==
    /\ Len(routing_history) = 2
    /\ routing_history[1] = cycle[1].result
    /\ routing_history[2] = cycle[2].result
    /\ last_call.op = "get_routing_statistics"
    /\ last_call.ret.total_orders = 1

\* the venues on which the execution of a MARKET child order for a listed
\* symbol has finished
VenuesThatExecuted ==
    {v \in Venues :
        \E c \in Cycles : \E i \in TaskIds(c) :
            /\ Tasks(c)[i].exchange_id = v
            /\ Finished(Tasks(c)[i])
            /\ Tasks(c)[i].sub_order.order_type = "MARKET"
            /\ Tasks(c)[i].sub_order.symbol \in DOMAIN order_books[v]}

\* C25: a call of get_routing_statistics with a non-empty history returns
\* as success rate the number of history entries with success = TRUE
\* divided by the length of the history, and a contribution share for
\* every venue that executed child orders.
C25_StatisticsDerivedFromHistory ==
    [][(Calls("get_routing_statistics") /\ routing_history # <<>>) =>
          /\ last_call'.ret.success_rate =
                 Rat(Cardinality({i \in 1..Len(routing_history) :
                                     routing_history[i].success}),
                     Len(routing_history))
          /\ \A v \in VenuesThatExecuted :
                 v \in DOMAIN last_call'.ret.exchange_statistics]_vars

(***************************************************************************)
(* Properties of calculate_optimal_routing called on its own (SpecAlloc).  *)
(***************************************************************************)
Allocating == last_call.op = "calculate_optimal_routing"

\* the sum of the scores of the venues of the last call
ScoreSum ==
    SumSeq([i \in 1..Len(last_call.exchanges) |->
               RoutingScore(last_call.exchanges[i],
                            last_call.oracle[i].success_prob,
                            last_call.oracle[i].impact)])

NoViableVenue == [error |-> "NoViableVenue"]

\* C11: when the list of venue features is empty, or the scores do not sum
\* to a positive number, calculate_optimal_routing fails with NoViableVenue
\* instead of dividing by the sum of the scores.
C11_DegenerateScoresFailNoViableVenue ==
    (Allocating /\ (last_call.exchanges = <<>> \/ ScoreSum <= 0))
        => last_call.ret = NoViableVenue

\* C12: when the models cannot answer, every venue of the list is allocated
\* the same quantity, the order size divided by the number of venues.
C12_OracleUnavailableGivesEqualWeights ==
    (Allocating /\ ~last_call.is_trained /\ last_call.exchanges # <<>>)
        => \A i \in 1..Len(last_call.ret) :
               last_call.ret[i][2] =
                   Rat(last_call.order_size, Len(last_call.exchanges))

\* C22: every quantity of the allocation that calculate_optimal_routing
\* returns is at least 0.
C22_AllocationsNonNegative ==
    Allocating =>
        \A i \in 1..Len(last_call.ret) : last_call.ret[i][2][1] >= 0

====
